---------------------------- MODULE Spec2Model ----------------------------
(***************************************************************************)
(* A model of the bias-analysis pipeline of politicalmediabias:            *)
(* src/app/bias_detector.py (truncation, prompt construction, model call,  *)
(* JSON recovery, score normalisation, run log),                           *)
(* src/app/html_parser.py (input extraction) and                           *)
(* src/app/serial_processor.py (batch processing of a folder).             *)
(*                                                                         *)
(* Python strings are sequences of symbols.  A symbol is one character     *)
(* (" ", "{", "5", ...) or an indivisible run of letters ("text", "left",  *)
(* "bias", ...) that no other symbol of the same alphabet shares letters   *)
(* with, so that every string operation of the code (strip, split, find,   *)
(* in, format, json.loads, float) is computed on the symbols exactly as    *)
(* Python computes it on the characters.                                   *)
(***************************************************************************)
EXTENDS Integers, Sequences, FiniteSets, TLC

VARIABLES
    raw_input,        \* prepare_bias_input: the text handed in
    max_words,        \* prepare_bias_input: the word limit
    prompt_template,  \* prepare_bias_input: the optional custom template
    prepared,         \* what prepare_bias_input returned (or that it raised)
    truncated,        \* what truncate_words returned for raw_input itself
    output,           \* _extract_json_payload: the raw output handed in
    payload,          \* what _extract_json_payload returned
    bias_value,       \* parse_bias_score: the value handed in
    bias_score,       \* what parse_bias_score returned
    result,           \* normalize_bias_response: the dictionary handed in
    normalized,       \* what normalize_bias_response returned
    prepared_prompt,  \* analyze_with_model: the prompt handed in (empty: none)
    model_run,        \* what the model process does when it is run
    log_write,        \* what writing the run log does when it is tried
    log_file,         \* the run log on disk
    returned,         \* what analyze_with_model returned (or that it raised)
    invocations,      \* how many calls of analyze_with_model have returned
    folder,           \* analyze_text_folder: what folder_path names on disk
    results,          \* the results subdirectory of the folder
    batch_pc,         \* where analyze_text_folder stands
    text_files,       \* the sorted *.txt entries still to be processed
    current,          \* the file whose model process is running
    processed,        \* analyze_text_folder's counter
    batch_outcome,    \* what analyze_text_folder returned or raised
    model_calls,      \* the model processes started, in order: file and prompt
    written,          \* the result files written, in order
    extractions       \* the URL fetches and HTML extractions made, in order

vars == <<raw_input, max_words, prompt_template, prepared, truncated, output, payload,
          bias_value, bias_score, result, normalized,
          prepared_prompt, model_run, log_write, log_file, returned,
          invocations, folder, results, batch_pc, text_files, current, processed,
          batch_outcome, model_calls, written, extractions>>

prepVars  == <<raw_input, max_words, prompt_template, prepared, truncated>>
parseVars == <<output, payload>>
scoreVars == <<bias_value, bias_score>>
normVars  == <<result, normalized>>
callVars  == <<prepared_prompt, model_run, log_write, log_file, returned>>
seqVars   == <<invocations>>
batchVars == <<folder, results, batch_pc, text_files, current, processed,
               batch_outcome, model_calls, written, extractions>>

----------------------------------------------------------------------------
(* Bounds of the model. *)

MaxTextLen == 5      \* symbols in a text handed to the truncator
MaxWordsArg == 3     \* largest word limit tried (the smallest is -MaxWordsArg)
MaxTplLen == 5       \* symbols in a custom prompt template
MaxNoise == 2        \* symbols of prose before and after a model reply
MaxBiasLen == 3      \* symbols in a bias string

----------------------------------------------------------------------------
(* Sequences. *)

Max(a, b) == IF a >= b THEN a ELSE b
Min(a, b) == IF a <= b THEN a ELSE b

\* s[a..b], empty when b < a (Python's s[a-1:b]).
Slice(s, a, b) == IF b < a THEN <<>> ELSE SubSeq(s, a, b)

\* All sequences over S of length at most n.
SeqsUpTo(S, n) == UNION { [1..k -> S] : k \in 0..n }

\* Python's `needle in hay` for strings: a contiguous occurrence.
Contains(hay, needle) ==
    \E i \in 0..(Len(hay) - Len(needle)) :
        \A j \in 1..Len(needle) : hay[i + j] = needle[j]

\* str.find(c) and str.rfind(c) for a one-character c, 1-based; 0 is Python's -1.
Find(s, c) ==
    IF \E i \in 1..Len(s) : s[i] = c
    THEN CHOOSE i \in 1..Len(s) : s[i] = c /\ \A j \in 1..(i - 1) : s[j] # c
    ELSE 0

RFind(s, c) ==
    IF \E i \in 1..Len(s) : s[i] = c
    THEN CHOOSE i \in 1..Len(s) : s[i] = c /\ \A j \in (i + 1)..Len(s) : s[j] # c
    ELSE 0

\* The characters str.strip(), str.rstrip() and str.split() treat as whitespace.
Whitespace == {" ", "\n", "\t"}

LStrip(s) ==
    IF \A i \in 1..Len(s) : s[i] \in Whitespace THEN <<>>
    ELSE LET f == CHOOSE i \in 1..Len(s) :
                      s[i] \notin Whitespace /\ \A j \in 1..(i - 1) : s[j] \in Whitespace
         IN  SubSeq(s, f, Len(s))

RStrip(s) ==
    IF \A i \in 1..Len(s) : s[i] \in Whitespace THEN <<>>
    ELSE LET l == CHOOSE i \in 1..Len(s) :
                      s[i] \notin Whitespace /\ \A j \in (i + 1)..Len(s) : s[j] \in Whitespace
         IN  SubSeq(s, 1, l)

Strip(s) == LStrip(RStrip(s))

\* str.split(): the maximal runs of non-whitespace, in order.
RECURSIVE Split(_)
Split(s) ==
    LET t == LStrip(s) IN
    IF t = <<>> THEN <<>>
    ELSE LET n == IF \E i \in 1..Len(t) : t[i] \in Whitespace
                  THEN (CHOOSE i \in 1..Len(t) :
                            t[i] \in Whitespace /\ \A j \in 1..(i - 1) : t[j] \notin Whitespace) - 1
                  ELSE Len(t)
         IN  <<SubSeq(t, 1, n)>> \o Split(SubSeq(t, n + 1, Len(t)))

\* " ".join(words)
RECURSIVE Join(_)
Join(words) ==
    IF words = <<>> THEN <<>>
    ELSE IF Len(words) = 1 THEN words[1]
    ELSE words[1] \o <<" ">> \o Join(Tail(words))

\* words[:n], Python's slice: a negative n counts from the end.
Prefix(words, n) ==
    IF n >= 0 THEN Slice(words, 1, Min(n, Len(words)))
    ELSE Slice(words, 1, Max(0, Len(words) + n))

----------------------------------------------------------------------------
(* src/app/html_parser.py *)

\* The scheme symbol of a URL; the delimiters that end its network location.
UrlScheme == "http://"
UrlDelims == {"/", "?", "#"}

\* urlparse(text).scheme in {"http", "https"} and bool(parsed.netloc): the text
\* starts with the scheme and a character that is no delimiter follows it.
_is_probable_url(text) ==
    /\ Len(text) >= 2
    /\ text[1] = UrlScheme
    /\ text[2] \notin UrlDelims

\* extract_text_from_input.  `page` is what the collaborators outside the model
\* deliver when they are asked: the text BeautifulSoup extracts from the markup,
\* or "raise" for a fetch that fails.  Returns the text and the metadata.
extract_text_from_input(raw, page) ==
    LET cleaned_input == Strip(raw) IN
    IF cleaned_input = <<>>
    THEN [raised |-> FALSE, text |-> <<>>, source |-> "text", extracted |-> FALSE]
    ELSE IF _is_probable_url(cleaned_input)
    THEN IF page.raised
         THEN [raised |-> TRUE, text |-> <<>>, source |-> "url", extracted |-> FALSE]
         ELSE [raised |-> FALSE, text |-> page.text, source |-> "url", extracted |-> TRUE]
    ELSE IF "<" \in {cleaned_input[i] : i \in 1..Len(cleaned_input)}
            /\ ">" \in {cleaned_input[i] : i \in 1..Len(cleaned_input)}
    THEN [raised |-> FALSE, text |-> page.text, source |-> "html", extracted |-> TRUE]
    ELSE [raised |-> FALSE, text |-> cleaned_input, source |-> "text", extracted |-> FALSE]

----------------------------------------------------------------------------
(* src/app/bias_detector.py: truncation and prompt construction *)

\* truncate_words with the slice one word short: words[:max_words - 1].
truncate_words_short(text, n) == Join(Prefix(Split(text), n - 1))

truncate_words(text, n) == Join(Prefix(Split(text), n))

\* The fixed parts of a prompt.
DefaultInstructions == <<"You are a media bias analyst. [...] The reasoning should be 1-3 sentences.">>
TextBlock(t) == <<"Text:", "\n", "\"\"\"", "\n">> \o t \o <<"\n", "\"\"\"">>

\* str.format(text=t) on a template, as CPython's MarkupIterator scans it:
\* "{{" and "}}" are literal braces, a lone "}" or an unclosed "{" is a
\* ValueError, "{" inside a field name is a ValueError, the field "text" is
\* replaced by t, and any other field name is a KeyError or IndexError.
RECURSIVE FormatFrom(_, _, _)
FormatFrom(tpl, i, t) ==
    IF i > Len(tpl) THEN [raised |-> FALSE, s |-> <<>>]
    ELSE IF tpl[i] = "}"
    THEN IF i < Len(tpl) /\ tpl[i + 1] = "}"
         THEN LET r == FormatFrom(tpl, i + 2, t)
              IN  [raised |-> r.raised, s |-> <<"}">> \o r.s]
         ELSE [raised |-> TRUE, s |-> <<>>]
    ELSE IF tpl[i] = "{"
    THEN IF i = Len(tpl) THEN [raised |-> TRUE, s |-> <<>>]
         ELSE IF tpl[i + 1] = "{"
         THEN LET r == FormatFrom(tpl, i + 2, t)
              IN  [raised |-> r.raised, s |-> <<"{">> \o r.s]
         ELSE LET stops == {j \in (i + 1)..Len(tpl) : tpl[j] \in {"{", "}"}} IN
              IF stops = {} THEN [raised |-> TRUE, s |-> <<>>]
              ELSE LET j == CHOOSE k \in stops : \A m \in stops : k <= m IN
                   IF tpl[j] = "{" \/ SubSeq(tpl, i + 1, j - 1) # <<"text">>
                   THEN [raised |-> TRUE, s |-> <<>>]
                   ELSE LET r == FormatFrom(tpl, j + 1, t)
                        IN  [raised |-> r.raised, s |-> t \o r.s]
    ELSE LET r == FormatFrom(tpl, i + 1, t)
         IN  [raised |-> r.raised, s |-> <<tpl[i]>> \o r.s]

Format(tpl, t) == FormatFrom(tpl, 1, t)

_render_custom_prompt(tpl, truncated_text) ==
    IF Contains(tpl, <<"{", "text", "}">>)
    THEN Format(tpl, truncated_text)
    ELSE [raised |-> FALSE,
          s |-> RStrip(tpl) \o <<"\n", "\n">> \o TextBlock(truncated_text)]

\* A template is a record: given = FALSE is Python's None.
NoTemplate == [given |-> FALSE, s |-> <<>>]
Template(s) == [given |-> TRUE, s |-> s]

\* prepare_bias_input: the prompt and the metadata, or raised = TRUE when the
\* extraction or the template's format() raises.
prepare_bias_input(raw, n, tpl, page) ==
    LET ex == extract_text_from_input(raw, page)
        cleaned_text == ex.text
        original_word_count == Len(Split(cleaned_text))
        truncated_text == truncate_words(cleaned_text, n)
        truncated_word_count == Len(Split(truncated_text))
        words_cut == Max(0, original_word_count - truncated_word_count)
        rendered == IF tpl.given /\ tpl.s # <<>>
                    THEN _render_custom_prompt(tpl.s, truncated_text)
                    ELSE [raised |-> FALSE,
                          s |-> DefaultInstructions \o <<"\n", "\n">> \o TextBlock(truncated_text)]
    IN  [raised |-> ex.raised \/ rendered.raised,
         prompt |-> IF ex.raised \/ rendered.raised THEN <<>> ELSE rendered.s,
         cleaned_text |-> cleaned_text,
         truncated_text |-> truncated_text,
         source |-> ex.source,
         extracted |-> ex.extracted,
         original_word_count |-> original_word_count,
         truncated_word_count |-> truncated_word_count,
         words_cut |-> words_cut]

----------------------------------------------------------------------------
(* Python values.  None is JNull; a number is its sign, its integer part   *)
(* and its fraction digits without trailing zeros (so 2.50 = 2.5 and       *)
(* -0 = 0); a string is its symbols; a dict is a function from keys        *)
(* (values) to values.                                                     *)

JNull == [t |-> "null"]
JBool(b) == [t |-> "bool", b |-> b]
JNum(neg, ip, fr) == [t |-> "num", neg |-> neg /\ (ip # 0 \/ fr # <<>>), ip |-> ip, fr |-> fr]
JStr(s) == [t |-> "str", s |-> s]
JList(items) == [t |-> "list", items |-> items]
JObj(d) == [t |-> "obj", d |-> d]

EmptyDict == [k \in {} |-> JNull]
\* d[k] = v
DictSet(d, k, v) == [x \in (DOMAIN d) \cup {k} |-> IF x = k THEN v ELSE d[x]]
\* d.get(k)
DictGet(d, k) == IF k \in DOMAIN d THEN d[k] ELSE JNull
\* d.setdefault(k, v)
DictSetDefault(d, k, v) == IF k \in DOMAIN d THEN d ELSE DictSet(d, k, v)
\* The key a string literal names.
K(name) == JStr(<<name>>)

----------------------------------------------------------------------------
(* json.loads, as json.decoder / json.scanner parse a str. *)

JsonWs == {" ", "\t", "\n", "\r"}
Digits == {"0", "1", "2", "3", "4", "5", "6", "7", "8", "9"}
DigitVal(c) ==
    CASE c = "0" -> 0 [] c = "1" -> 1 [] c = "2" -> 2 [] c = "3" -> 3 [] c = "4" -> 4
      [] c = "5" -> 5 [] c = "6" -> 6 [] c = "7" -> 7 [] c = "8" -> 8 [] c = "9" -> 9

\* The first position at or after i that holds no JSON whitespace.
SkipWs(s, i) ==
    LET stops == {j \in i..Len(s) : s[j] \notin JsonWs} IN
    IF stops = {} THEN Max(i, Len(s) + 1)
    ELSE CHOOSE j \in stops : \A m \in stops : j <= m

\* The last position of the run of digits that starts at i (i - 1 if none).
DigitsEnd(s, i) ==
    LET stops == {j \in i..Len(s) : s[j] \notin Digits} IN
    IF stops = {} THEN Len(s)
    ELSE (CHOOSE j \in stops : \A m \in stops : j <= m) - 1

RECURSIVE IntOf(_)
IntOf(ds) == IF ds = <<>> THEN 0 ELSE 10 * IntOf(SubSeq(ds, 1, Len(ds) - 1)) + DigitVal(ds[Len(ds)])

RECURSIVE DropZeros(_)
DropZeros(ds) ==
    IF ds # <<>> /\ ds[Len(ds)] = "0" THEN DropZeros(SubSeq(ds, 1, Len(ds) - 1)) ELSE ds

ParseFail == [ok |-> FALSE, v |-> JNull, next |-> 0]
Parsed(v, next) == [ok |-> TRUE, v |-> v, next |-> next]

\* NUMBER_RE: (-?(?:0|[1-9]\d*))(\.\d+)?  matched at i.
ParseNumber(s, i) ==
    LET neg == s[i] = "-"
        p == IF neg THEN i + 1 ELSE i
    IN  IF p > Len(s) \/ s[p] \notin Digits THEN ParseFail
        ELSE LET ie == IF s[p] = "0" THEN p ELSE DigitsEnd(s, p)
                 hasFrac == ie + 2 <= Len(s) /\ s[ie + 1] = "." /\ s[ie + 2] \in Digits
                 fe == IF hasFrac THEN DigitsEnd(s, ie + 2) ELSE ie
                 fr == IF hasFrac THEN DropZeros(SubSeq(s, ie + 2, fe)) ELSE <<>>
             IN  Parsed(JNum(neg, IntOf(SubSeq(s, p, ie)), fr), fe + 1)

\* py_scanstring in strict mode, from the opening quote at i: the string ends at
\* the next quote; a control character inside it is an error.
ParseString(s, i) ==
    LET quotes == {j \in (i + 1)..Len(s) : s[j] = "\""} IN
    IF quotes = {} THEN ParseFail
    ELSE LET j == CHOOSE q \in quotes : \A m \in quotes : q <= m
             body == SubSeq(s, i + 1, j - 1)
         IN  IF \E k \in 1..Len(body) : body[k] \in {"\n", "\t", "\r"}
             THEN ParseFail
             ELSE Parsed(JStr(body), j + 1)

RECURSIVE ParseValue(_, _)
RECURSIVE ParseMembers(_, _, _)
RECURSIVE ParseItems(_, _, _)

\* JSONObject after the key's opening quote is expected at i.
ParseMembers(s, i, d) ==
    IF i > Len(s) \/ s[i] # "\"" THEN ParseFail
    ELSE LET key == ParseString(s, i) IN
         IF ~key.ok THEN ParseFail
         ELSE LET c == SkipWs(s, key.next) IN
              IF c > Len(s) \/ s[c] # ":" THEN ParseFail
              ELSE LET val == ParseValue(s, SkipWs(s, c + 1)) IN
                   IF ~val.ok THEN ParseFail
                   ELSE LET e == SkipWs(s, val.next)
                            d2 == DictSet(d, key.v, val.v)
                        IN  IF e > Len(s) THEN ParseFail
                            ELSE IF s[e] = "}" THEN Parsed(JObj(d2), e + 1)
                            ELSE IF s[e] = "," THEN ParseMembers(s, SkipWs(s, e + 1), d2)
                            ELSE ParseFail

\* JSONArray with the next item expected at i.
ParseItems(s, i, acc) ==
    LET val == ParseValue(s, i) IN
    IF ~val.ok THEN ParseFail
    ELSE LET e == SkipWs(s, val.next)
             acc2 == Append(acc, val.v)
         IN  IF e > Len(s) THEN ParseFail
             ELSE IF s[e] = "]" THEN Parsed(JList(acc2), e + 1)
             ELSE IF s[e] = "," THEN ParseItems(s, SkipWs(s, e + 1), acc2)
             ELSE ParseFail

\* scan_once at i.
ParseValue(s, i) ==
    IF i > Len(s) THEN ParseFail
    ELSE IF s[i] = "\"" THEN ParseString(s, i)
    ELSE IF s[i] = "{"
    THEN LET j == SkipWs(s, i + 1) IN
         IF j <= Len(s) /\ s[j] = "}" THEN Parsed(JObj(EmptyDict), j + 1)
         ELSE ParseMembers(s, j, EmptyDict)
    ELSE IF s[i] = "["
    THEN LET j == SkipWs(s, i + 1) IN
         IF j <= Len(s) /\ s[j] = "]" THEN Parsed(JList(<<>>), j + 1)
         ELSE ParseItems(s, j, <<>>)
    ELSE IF s[i] = "null" THEN Parsed(JNull, i + 1)
    ELSE IF s[i] = "true" THEN Parsed(JBool(TRUE), i + 1)
    ELSE IF s[i] = "false" THEN Parsed(JBool(FALSE), i + 1)
    ELSE IF s[i] = "-" \/ s[i] \in Digits THEN ParseNumber(s, i)
    ELSE ParseFail

\* json.loads(s): ok = FALSE is a JSONDecodeError.
json_loads(s) ==
    LET r == ParseValue(s, SkipWs(s, 1)) IN
    IF r.ok /\ SkipWs(s, r.next) > Len(s) THEN [ok |-> TRUE, v |-> r.v]
    ELSE [ok |-> FALSE, v |-> JNull]

----------------------------------------------------------------------------
(* src/app/bias_detector.py: JSON recovery *)

\* _extract_json_payload with the span ended at the first "}" (find for rfind).
_extract_json_payload_firstclose(out) ==
    IF out = <<>> THEN JNull
    ELSE LET whole == json_loads(out) IN
         IF whole.ok THEN whole.v
         ELSE LET start == Find(out, "{")
                  end == Find(out, "}")
              IN  IF start = 0 \/ end = 0 \/ end <= start THEN JNull
                  ELSE LET span == json_loads(SubSeq(out, start, end)) IN
                       IF span.ok THEN span.v ELSE JNull

\* _extract_json_payload: whatever json.loads yields for the whole output, else
\* what it yields for the span from the first "{" to the last "}", else None.
_extract_json_payload(out) ==
    IF out = <<>> THEN JNull
    ELSE LET whole == json_loads(out) IN
         IF whole.ok THEN whole.v
         ELSE LET start == Find(out, "{")
                  end == RFind(out, "}")
              IN  IF start = 0 \/ end = 0 \/ end <= start THEN JNull
                  ELSE LET span == json_loads(SubSeq(out, start, end)) IN
                       IF span.ok THEN span.v ELSE JNull

----------------------------------------------------------------------------
(* src/app/bias_detector.py: score normalisation *)

\* str.lower() on a symbol.
LowerSym(c) ==
    CASE c = "LEFT" -> "left" [] c = "Right" -> "right" [] OTHER -> c
Lower(s) == [i \in 1..Len(s) |-> LowerSym(s[i])]

\* float(s) for a stripped str: an optional sign, then digits with an optional
\* fraction ("5", "5.", ".5", "2.5"); ok = FALSE is a ValueError.
FloatOf(s) ==
    LET signed == s # <<>> /\ s[1] \in {"-", "+"}
        p == IF signed THEN 2 ELSE 1
        ie == DigitsEnd(s, p)
        dot == ie < Len(s) /\ s[ie + 1] = "."
        fe == IF dot THEN DigitsEnd(s, ie + 2) ELSE ie
    IN  IF fe = Len(s) /\ (ie >= p \/ (dot /\ fe >= ie + 2))
        THEN [ok |-> TRUE,
              v |-> JNum(signed /\ s[1] = "-", IntOf(Slice(s, p, ie)),
                         IF dot THEN DropZeros(Slice(s, ie + 2, fe)) ELSE <<>>)]
        ELSE [ok |-> FALSE, v |-> JNull]

\* max(-1.0, min(1.0, x)) with the clamp left out.
Clamp_none(x) == x

\* max(-1.0, min(1.0, x))
Clamp(x) == IF x.ip >= 1 THEN JNum(x.neg, 1, <<>>) ELSE x

LeftLabels == {<<"left">>, <<"liberal">>}
RightLabels == {<<"right">>, <<"conservative">>}
NeutralLabels == {<<"neutral">>, <<"center">>, <<"centre">>, <<"middle">>}

\* parse_bias_score with the labels compared before lower-casing.
parse_bias_score_cased(v) ==
    IF v.t = "null" THEN JNull
    ELSE IF v.t = "num" THEN Clamp(v)
    ELSE IF v.t = "bool" THEN Clamp(JNum(FALSE, IF v.b THEN 1 ELSE 0, <<>>))
    ELSE IF v.t = "str"
    THEN LET norm == Strip(v.s) IN
         IF norm \in LeftLabels THEN JNum(TRUE, 1, <<>>)
         ELSE IF norm \in RightLabels THEN JNum(FALSE, 1, <<>>)
         ELSE IF norm \in NeutralLabels THEN JNum(FALSE, 0, <<>>)
         ELSE IF FloatOf(norm).ok THEN Clamp(FloatOf(norm).v)
         ELSE JNull
    ELSE JNull

\* parse_bias_score: None (JNull) or the score.  A bool is an int to Python.
parse_bias_score(v) ==
    IF v.t = "null" THEN JNull
    ELSE IF v.t = "num" THEN Clamp(v)
    ELSE IF v.t = "bool" THEN Clamp(JNum(FALSE, IF v.b THEN 1 ELSE 0, <<>>))
    ELSE IF v.t = "str"
    THEN LET norm == Lower(Strip(v.s)) IN
         IF norm \in LeftLabels THEN JNum(TRUE, 1, <<>>)
         ELSE IF norm \in RightLabels THEN JNum(FALSE, 1, <<>>)
         ELSE IF norm \in NeutralLabels THEN JNum(FALSE, 0, <<>>)
         ELSE IF FloatOf(norm).ok THEN Clamp(FloatOf(norm).v)
         ELSE JNull
    ELSE JNull

\* bool(v): Python's truth value.
Truthy(v) ==
    CASE v.t = "null" -> FALSE
      [] v.t = "bool" -> v.b
      [] v.t = "num" -> v.ip # 0 \/ v.fr # <<>>
      [] v.t = "str" -> v.s # <<>>
      [] v.t = "list" -> v.items # <<>>
      [] v.t = "obj" -> DOMAIN v.d # {}

\* a or b
Or(a, b) == IF Truthy(a) THEN a ELSE b

\* normalize_bias_response on a dict.
normalize_bias_response(res) ==
    LET bs == parse_bias_score(DictGet(res, K("bias")))
        n1 == IF bs # JNull THEN DictSet(res, K("bias"), bs) ELSE res
        rationale == Or(DictGet(n1, K("reasoning")), DictGet(n1, K("rationale")))
    IN  IF rationale # JNull THEN DictSet(n1, K("reasoning"), rationale) ELSE n1

----------------------------------------------------------------------------
(* src/app/bias_detector.py: the model call and the run log *)

\* The symbols that are one character long; every other symbol is a word of
\* three letters or more.
SingleCharSyms ==
    Digits \cup {"{", "}", "[", "]", ":", ",", "\"", " ", "-", ".", "+",
                 "\n", "\t", "\r", "<", ">", "/", "?", "#", "a", "b", "x"}

\* What subprocess.run does: it raises TimeoutExpired, raises something else
\* (the binary is missing, I/O fails), or completes with a standard output.
NoRun == [kind |-> "none", stdout |-> <<>>, cause |-> ""]
TimedOut == [kind |-> "timeout", stdout |-> <<>>, cause |-> ""]
Failed(cause) == [kind |-> "failed", stdout |-> <<>>, cause |-> cause]
Completed(stdout) == [kind |-> "completed", stdout |-> stdout, cause |-> ""]

\* The run log: absent, or the three sections of one invocation, complete or cut
\* short by a write that failed.
NoLog == [exists |-> FALSE]
LogRecord(prompt, out, parsed, complete) ==
    [exists |-> TRUE, complete |-> complete, prompt |-> prompt,
     raw_output |-> out, parsed |-> parsed]

\* _write_run_log: the file afterwards and whether an OSError was raised.
\* how = "ok": the three sections are written over the old content;
\* how = "fail_open": makedirs or open raises, the file is as it was;
\* how = "fail_write": a write raises after open has emptied the file.
_write_run_log(old, how, prompt, out, parsed) ==
    CASE how = "ok" ->
             [raised |-> FALSE, file |-> LogRecord(prompt, out, parsed, TRUE)]
      [] how = "fail_open" ->
             [raised |-> TRUE, file |-> old]
      [] how = "fail_write" ->
             [raised |-> TRUE, file |-> LogRecord(prompt, <<>>, JNull, FALSE)]

LogErrorCause == "[Errno 13] Permission denied: 'mistral_run.log'"

\* The key a value is stored under: True and False are the keys 1 and 0.
KeyOf(v) == IF v.t = "bool" THEN JNum(FALSE, IF v.b THEN 1 ELSE 0, <<>>) ELSE v

\* One item of dict(iterable): a pair, or not one.
PairOf(item) ==
    IF item.t = "list" /\ Len(item.items) = 2 /\ item.items[1].t \notin {"list", "obj"}
    THEN [ok |-> TRUE, k |-> KeyOf(item.items[1]), v |-> item.items[2]]
    ELSE IF item.t = "str" /\ Len(item.s) = 2
            /\ item.s[1] \in SingleCharSyms /\ item.s[2] \in SingleCharSyms
    THEN [ok |-> TRUE, k |-> JStr(<<item.s[1]>>), v |-> JStr(<<item.s[2]>>)]
    ELSE [ok |-> FALSE, k |-> JNull, v |-> JNull]

RECURSIVE DictOfPairs(_, _)
DictOfPairs(items, d) ==
    IF items = <<>> THEN [raised |-> FALSE, d |-> d]
    ELSE IF ~PairOf(items[1]).ok THEN [raised |-> TRUE, d |-> EmptyDict]
    ELSE DictOfPairs(Tail(items), DictSet(d, PairOf(items[1]).k, PairOf(items[1]).v))

\* dict(parsed) for what json.loads can yield: a copy of a dict; for a list its
\* items taken as key-value pairs; for a string its characters taken as pairs
\* (so only the empty string succeeds); a TypeError for a number or a boolean.
DictOf(parsed) ==
    CASE parsed.t = "obj" -> [raised |-> FALSE, d |-> parsed.d]
      [] parsed.t = "list" -> DictOfPairs(parsed.items, EmptyDict)
      [] parsed.t = "str" -> [raised |-> parsed.s # <<>>, d |-> EmptyDict]
      [] OTHER -> [raised |-> TRUE, d |-> EmptyDict]

DictErrorCause == "<dict(parsed) message>"

ErrorResult(cause) == K("bias") :> JStr(<<"error: ", cause>>)

\* The try block of analyze_with_model once subprocess.run has completed: the
\* log write, then dict(parsed) and setdefault, or the "unknown" result.  An
\* exception raised here is caught by the function's except clause.
completed_run(prompt, out, parsed, how, old_log) ==
    LET logged == _write_run_log(old_log, how, prompt, out, parsed)
        copy == DictOf(parsed)
    IN  IF logged.raised
        THEN [raised |-> FALSE, result |-> ErrorResult(LogErrorCause), log |-> logged.file]
        ELSE IF parsed # JNull
        THEN IF copy.raised
             THEN [raised |-> FALSE, result |-> ErrorResult(DictErrorCause), log |-> logged.file]
             ELSE [raised |-> FALSE,
                   result |-> DictSetDefault(copy.d, K("raw_output"), JStr(out)),
                   log |-> logged.file]
        ELSE [raised |-> FALSE,
              result |-> (K("bias") :> JStr(<<"unknown">>)) @@ (K("raw_output") :> JStr(out)),
              log |-> logged.file]

\* analyze_with_model.  prepared_prompt empty is "no prompt handed in" (None and
\* "" are both falsy): the prompt is then built from raw, outside the try.
\* Returns the result dict, whether an exception left the function, and the run
\* log afterwards.  prompt and output are locals, computed once.
analyze_with_model(raw, n, pp, page, run, how, old_log) ==
    LET built == IF pp # <<>> THEN [raised |-> FALSE, prompt |-> pp]
                 ELSE prepare_bias_input(raw, n, NoTemplate, page)
    IN  IF built.raised
        THEN [raised |-> TRUE, result |-> EmptyDict, log |-> old_log]
        ELSE IF run.kind = "timeout"
        THEN [raised |-> FALSE, result |-> K("bias") :> JStr(<<"timeout">>), log |-> old_log]
        ELSE IF run.kind = "failed"
        THEN [raised |-> FALSE, result |-> ErrorResult(run.cause), log |-> old_log]
        ELSE CHOOSE r \in {completed_run(prompt, out, _extract_json_payload(out),
                                         how, old_log) :
                               prompt \in {built.prompt}, out \in {Strip(run.stdout)}} : TRUE

----------------------------------------------------------------------------
(* src/app/serial_processor.py: the folder, its entries and the result     *)
(* files.  A file name is a sequence of symbols, its extension one symbol. *)

\* The order of the symbols of a name: the code points of their first characters.
SymRank(c) ==
    CASE c = "." -> 1 [] c = "a" -> 2 [] c = "b" -> 3 [] c = "md" -> 4 [] c = "txt" -> 5

\* a < b as Python compares the two names.
NameLess(a, b) ==
    \E i \in 1..(Len(a) + 1) :
        /\ \A j \in 1..(i - 1) : j <= Len(b) /\ a[j] = b[j]
        /\ \/ i = Len(a) + 1 /\ i <= Len(b)
           \/ i <= Len(a) /\ i <= Len(b) /\ SymRank(a[i]) < SymRank(b[i])

\* sorted(paths), largest first.
RECURSIVE sorted_reverse(_)
sorted_reverse(names) ==
    IF names = {} THEN <<>>
    ELSE LET last == CHOOSE x \in names : \A y \in names \ {x} : NameLess(y, x)
         IN  <<last>> \o sorted_reverse(names \ {last})

\* sorted(paths) for paths of one directory.
RECURSIVE sorted(_)
sorted(names) ==
    IF names = {} THEN <<>>
    ELSE LET first == CHOOSE x \in names : \A y \in names \ {x} : NameLess(x, y)
         IN  <<first>> \o sorted(names \ {first})

\* What folder_path names: nothing, a file, or a directory with its entries
\* (the results subdirectory apart), each a text file or a subdirectory.
NoFolder == [kind |-> "missing", entries |-> <<>>]
NotAFolder == [kind |-> "file", entries |-> <<>>]
Folder(entries) == [kind |-> "dir", entries |-> entries]
TextFile(text) == [dir |-> FALSE, text |-> text]
SubDir == [dir |-> TRUE, text |-> <<>>]

\* target_dir.glob("*.txt"): the entries whose name ends in ".txt", whatever
\* they are.
glob_txt(entries) ==
    {n \in DOMAIN entries : Len(n) >= 2 /\ n[Len(n) - 1] = "." /\ n[Len(n)] = "txt"}

\* text_file.stem and the name of the result file.
stem(name) == SubSeq(name, 1, Len(name) - 2)
ResultName(name) == stem(name) \o <<".", "json">>

\* The results subdirectory: absent, or the files it holds.
NoResults == [exists |-> FALSE, files |-> <<>>]
_write_result_json(res, name, record) ==
    [exists |-> TRUE, files |-> DictSet(res.files, name, record)]

\* The record written for one file.
output_payload(raw_text, norm) ==
    [k \in {K("text"), K("bias"), K("confidence"), K("reasoning"), K("reasoining"),
            K("raw_output")} |->
        IF k = K("text") THEN JStr(raw_text)
        ELSE IF k = K("reasoining") THEN DictGet(norm, K("reasoning"))
        ELSE DictGet(norm, k)]

\* What analyze_text_folder returned (the summary) or raised.
Outcome(kind, n) == [kind |-> kind, processed_files |-> n]
NoOutcome == Outcome("none", 0)
NoCurrent == [file |-> <<>>, text |-> <<>>, prompt |-> <<>>]

\* The prompt a file's model process is given: prepare_bias_input's, and when
\* that is empty the one analyze_with_model builds itself with the default
\* instructions.  `made` lists the sources extract_text_from_input took that
\* were not plain text.
batch_prompt(raw_text, n, tpl, page1, page2) ==
    LET first == prepare_bias_input(raw_text, n, tpl, page1)
        second == prepare_bias_input(raw_text, n, NoTemplate, page2)
        made1 == IF first.source = "text" THEN <<>> ELSE <<first.source>>
        made2 == IF second.source = "text" THEN <<>> ELSE <<second.source>>
    IN  IF first.raised THEN [raised |-> TRUE, prompt |-> <<>>, made |-> made1]
        ELSE IF first.prompt # <<>>
        THEN [raised |-> FALSE, prompt |-> first.prompt, made |-> made1]
        ELSE [raised |-> second.raised, prompt |-> second.prompt, made |-> made1 \o made2]

----------------------------------------------------------------------------
(* The operations as actions.  A result variable holds NotRun until its     *)
(* operation has returned.                                                  *)

NotRun == [done |-> FALSE]
Done(r) == [done |-> TRUE, r |-> r]

\* What the extraction's collaborators (the fetch, the HTML parser) may deliver.
PageTexts == {<<>>, <<"a">>, <<"a", " ", "b">>}
Pages == {[raised |-> TRUE, text |-> <<>>]}
             \cup {[raised |-> FALSE, text |-> t] : t \in PageTexts}

\* truncate_words(raw_input, max_words=max_words)
TruncateWords ==
    /\ ~truncated.done
    /\ truncated' = Done(truncate_words(raw_input, max_words))
    /\ UNCHANGED <<raw_input, max_words, prompt_template, prepared>>
    /\ UNCHANGED <<parseVars, scoreVars, normVars, callVars, seqVars, batchVars>>

\* prepare_bias_input(raw_input, max_words=max_words, prompt_template=prompt_template)
PrepareBiasInput ==
    /\ ~prepared.done
    /\ \E page \in Pages :
           prepared' = Done(prepare_bias_input(raw_input, max_words, prompt_template, page))
    /\ UNCHANGED <<raw_input, max_words, prompt_template, truncated>>
    /\ UNCHANGED <<parseVars, scoreVars, normVars, callVars, seqVars, batchVars>>

\* _extract_json_payload(output)
ExtractJsonPayload ==
    /\ ~payload.done
    /\ payload' = Done(_extract_json_payload(output))
    /\ UNCHANGED <<output, prepVars, scoreVars, normVars, callVars, seqVars, batchVars>>

\* parse_bias_score(bias_value)
ParseBiasScore ==
    /\ ~bias_score.done
    /\ bias_score' = Done(parse_bias_score(bias_value))
    /\ UNCHANGED <<bias_value, prepVars, parseVars, normVars, callVars, seqVars, batchVars>>

\* normalize_bias_response(result)
NormalizeBiasResponse ==
    /\ ~normalized.done
    /\ normalized' = Done(normalize_bias_response(result))
    /\ UNCHANGED <<result, prepVars, parseVars, scoreVars, callVars, seqVars, batchVars>>

IdlePrep ==
    /\ raw_input = <<>> /\ max_words = 0 /\ prompt_template = NoTemplate
    /\ prepared = NotRun /\ truncated = NotRun
IdleParse == output = <<>> /\ payload = NotRun
IdleScore == bias_value = JNull /\ bias_score = NotRun
IdleNorm == result = EmptyDict /\ normalized = NotRun
IdleCall ==
    /\ prepared_prompt = <<>> /\ model_run = NoRun /\ log_write = "ok"
    /\ log_file = NoLog /\ returned = NotRun
IdleSeq == invocations = 0
IdleBatch ==
    /\ folder = NoFolder /\ results = NoResults /\ batch_pc = "idle"
    /\ text_files = <<>> /\ current = NoCurrent /\ processed = 0
    /\ batch_outcome = NoOutcome
    /\ model_calls = <<>> /\ written = <<>> /\ extractions = <<>>

----------------------------------------------------------------------------
(* Truncation: every text over TextChars, every word limit. *)

TextChars == {"a", "b", " ", "\n"}

TruncInit ==
    /\ raw_input \in SeqsUpTo(TextChars, MaxTextLen)
    /\ max_words \in (0 - MaxWordsArg)..MaxWordsArg
    /\ prompt_template = NoTemplate
    /\ prepared = NotRun /\ truncated = NotRun
    /\ IdleParse /\ IdleScore /\ IdleNorm /\ IdleCall /\ IdleSeq /\ IdleBatch

TruncNext == TruncateWords \/ PrepareBiasInput

SpecTrunc == TruncInit /\ [][TruncNext]_vars

----------------------------------------------------------------------------
(* Prompt construction: every template over TplChars, absent and empty     *)
(* included.                                                               *)

TplChars == {"{", "}", "text", "x", " "}
PromptTexts == {<<"a">>, <<"b", " ", "a">>, <<"a", " ", "b", " ", "a">>}

PromptInit ==
    /\ raw_input \in PromptTexts
    /\ max_words = 2
    /\ prompt_template \in {NoTemplate} \cup {Template(s) : s \in SeqsUpTo(TplChars, MaxTplLen)}
    /\ prepared = NotRun /\ truncated = NotRun
    /\ IdleParse /\ IdleScore /\ IdleNorm /\ IdleCall /\ IdleSeq /\ IdleBatch

PromptNext == PrepareBiasInput

SpecPrompt == PromptInit /\ [][PromptNext]_vars

----------------------------------------------------------------------------
(* JSON recovery: every output made of a reply text with up to MaxNoise    *)
(* symbols of prose or stray braces before it and after it.                *)

Q == "\""
Lit(w) == <<Q, w, Q>>
Member(k, v) == Lit(k) \o <<":">> \o v
Braced(body) == <<"{">> \o body \o <<"}">>

ReplyTexts ==
    { <<>>,
      <<"5">>, <<"-", "0", ".", "5">>, Lit("left"), <<Q, Q>>, <<"true">>, <<"null">>,
      <<"[", "]">>, <<"[", "5", "]">>,
      <<"[", "[">> \o Lit("bias") \o <<",">> \o Lit("left") \o <<"]", "]">>,
      Braced(<<>>),
      Braced(Member("bias", Lit("left"))),
      Braced(Member("bias", Lit("left")) \o <<",">>),
      Braced(Member("bias", <<"2", ".", "5">>)),
      Braced(Member("bias", Lit("unknown"))),
      Braced(Member("bias", <<"0", ".", "5">>) \o <<",", " ">> \o Member("reasoning", Lit("blah"))),
      Braced(Member("reasoning", <<Q, Q>>) \o <<",">> \o Member("rationale", Lit("blah"))),
      Braced(Member("bias", Braced(Member("left", <<"5">>)))),
      Braced(Member("raw_output", Lit("blah"))),
      Braced(Member("bias", Lit("unknown")) \o <<",">> \o Member("raw_output", Lit("blah"))),
      Braced(Member("bias", <<Q, "}", Q>>)) }

NoiseChars == {"blah", " ", "{", "}"}
ProseOrBrace == {"blah", " ", "}"}

ParseInit ==
    /\ output \in {pre \o body \o post :
                       pre \in SeqsUpTo(NoiseChars, MaxNoise),
                       body \in ReplyTexts,
                       post \in SeqsUpTo(NoiseChars, MaxNoise)}
    /\ payload = NotRun
    /\ IdlePrep /\ IdleScore /\ IdleNorm /\ IdleCall /\ IdleSeq /\ IdleBatch

ParseNext == ExtractJsonPayload

SpecParse == ParseInit /\ [][ParseNext]_vars

----------------------------------------------------------------------------
(* Score parsing: None, booleans, numbers, containers, and every string of *)
(* up to MaxBiasLen symbols over BiasChars.                                *)

BiasChars ==
    {"left", "LEFT", "liberal", "right", "Right", "conservative",
     "neutral", "center", "centre", "middle", "blah",
     " ", "-", ".", "0", "2", "5"}

BiasNumbers ==
    {JNum(neg, ip, fr) : neg \in BOOLEAN, ip \in 0..3, fr \in {<<>>, <<"5">>, <<"0", "5">>}}

ScoreInit ==
    /\ bias_value \in {JNull, JBool(TRUE), JBool(FALSE), JList(<<>>), JObj(EmptyDict)}
                          \cup BiasNumbers
                          \cup {JStr(b) : b \in SeqsUpTo(BiasChars, MaxBiasLen)}
    /\ bias_score = NotRun
    /\ IdlePrep /\ IdleParse /\ IdleNorm /\ IdleCall /\ IdleSeq /\ IdleBatch

ScoreNext == ParseBiasScore

SpecScore == ScoreInit /\ [][ScoreNext]_vars

----------------------------------------------------------------------------
(* Normalisation: every dictionary whose "bias", "reasoning", "rationale"  *)
(* and "raw_output" keys are each absent or hold one of the values below.  *)

Absent == [t |-> "absent"]

NormBiasValues ==
    { Absent, JNull, JBool(TRUE), JList(<<>>),
      JNum(FALSE, 0, <<"5">>), JNum(FALSE, 2, <<"5">>), JNum(TRUE, 3, <<>>),
      JStr(<<"left">>), JStr(<<" ", "Right">>), JStr(<<"2", ".", "5">>), JStr(<<>>),
      JStr(<<"blah">>), JStr(<<"unknown">>), JStr(<<"timeout">>),
      JStr(<<"error: ", "[Errno 2] No such file or directory: 'ollama'">>) }
NormReasoningValues ==
    { Absent, JNull, JStr(<<>>), JStr(<<"blah">>), JNum(FALSE, 0, <<>>),
      JBool(FALSE), JList(<<>>) }
NormRationaleValues == { Absent, JNull, JStr(<<>>), JStr(<<"legacy">>) }
NormRawValues == { Absent, JStr(<<"blah">>) }

\* The dict holding the keys whose value is not Absent.
DictOfFields(b, r, l, o) ==
    LET all == (K("bias") :> b) @@ (K("reasoning") :> r)
                   @@ (K("rationale") :> l) @@ (K("raw_output") :> o)
    IN  [k \in {x \in DOMAIN all : all[x] # Absent} |-> all[k]]

NormInit ==
    /\ result \in {DictOfFields(b, r, l, o) :
                       b \in NormBiasValues, r \in NormReasoningValues,
                       l \in NormRationaleValues, o \in NormRawValues}
    /\ normalized = NotRun
    /\ IdlePrep /\ IdleParse /\ IdleScore /\ IdleCall /\ IdleSeq /\ IdleBatch

NormNext == NormalizeBiasResponse

SpecNorm == NormInit /\ [][NormNext]_vars

----------------------------------------------------------------------------
(* One model call: a prompt handed in or not, every behaviour of the model *)
(* process, every behaviour of the log write.                              *)

MissingBinaryCause == "[Errno 2] No such file or directory: 'ollama'"

CallStdouts ==
    {pre \o body \o post :
         pre \in SeqsUpTo(ProseOrBrace, 1), body \in ReplyTexts, post \in SeqsUpTo(ProseOrBrace, 1)}
CallRuns == {TimedOut, Failed(MissingBinaryCause)} \cup {Completed(o) : o \in CallStdouts}
CallPrompts == {<<>>, DefaultInstructions \o <<"\n", "\n">> \o TextBlock(<<"a">>)}
CallInputs == {<<"a">>, <<UrlScheme, "a">>}
LogWrites == {"ok", "fail_open", "fail_write"}

\* analyze_with_model(raw_input, "mistral", max_words, prepared_prompt)
AnalyzeWithModel ==
    /\ ~returned.done
    /\ model_run # NoRun
    /\ \E page \in Pages :
           \E r \in {analyze_with_model(raw_input, max_words, prepared_prompt, page,
                                        model_run, log_write, log_file)} :
               /\ returned' = Done([raised |-> r.raised, result |-> r.result])
               /\ log_file' = r.log
    /\ UNCHANGED <<prepared_prompt, model_run, log_write>>
    /\ UNCHANGED <<prepVars, parseVars, scoreVars, normVars, seqVars, batchVars>>

CallInit ==
    /\ raw_input \in CallInputs
    /\ max_words = 2
    /\ prompt_template = NoTemplate
    /\ prepared = NotRun /\ truncated = NotRun
    /\ prepared_prompt \in CallPrompts
    /\ model_run \in CallRuns
    /\ log_write \in LogWrites
    /\ log_file = NoLog
    /\ returned = NotRun
    /\ IdleParse /\ IdleScore /\ IdleNorm /\ IdleSeq /\ IdleBatch

CallNext == AnalyzeWithModel

SpecCall == CallInit /\ [][CallNext]_vars

----------------------------------------------------------------------------
(* Several model calls in a row for one model name, hence one log path. *)

MaxCalls == 2        \* calls of analyze_with_model in a row

LogRuns ==
    {TimedOut, Failed(MissingBinaryCause), Completed(<<"blah", "\n">>),
     Completed(Braced(Member("bias", Lit("left"))))}
LogPrompts ==
    {DefaultInstructions \o <<"\n", "\n">> \o TextBlock(t) : t \in {<<"a">>, <<"b">>}}

\* The next call analyze_with_model(raw_input, "mistral", max_words, prompt).
AnalyzeWithModelAgain ==
    /\ invocations < MaxCalls
    /\ \E pp \in LogPrompts, run \in LogRuns, how \in LogWrites :
           \E r \in {analyze_with_model(raw_input, max_words, pp,
                                        [raised |-> FALSE, text |-> <<>>],
                                        run, how, log_file)} :
               /\ prepared_prompt' = pp
               /\ model_run' = run
               /\ log_write' = how
               /\ returned' = Done([raised |-> r.raised, result |-> r.result])
               /\ log_file' = r.log
    /\ invocations' = invocations + 1
    /\ UNCHANGED <<prepVars, parseVars, scoreVars, normVars, batchVars>>

LogInit ==
    /\ raw_input = <<"a">> /\ max_words = 2 /\ prompt_template = NoTemplate
    /\ prepared = NotRun /\ truncated = NotRun
    /\ IdleParse /\ IdleScore /\ IdleNorm /\ IdleCall /\ IdleSeq /\ IdleBatch

LogNext == AnalyzeWithModelAgain

SpecLog == LogInit /\ [][LogNext]_vars

----------------------------------------------------------------------------
(* analyze_text_folder over every folder of up to two *.txt files, another *)
(* file and a subdirectory, every behaviour of the model process and of    *)
(* the log write for each file.                                            *)

BatchTexts ==
    {<<>>, <<" ", "a", " ", "b", "\n", "a", "\n">>, <<UrlScheme, "a">>, <<"<", "a", ">">>}
BatchTxtNames == {<<"a", ".", "txt">>, <<"b", ".", "txt">>}
BatchOtherName == <<"a", ".", "md">>
BatchDirName == <<"a", "b", ".", "txt">>
BatchEntries ==
    {e \in UNION {[names -> {TextFile(t) : t \in BatchTexts} \cup {SubDir}] :
                      names \in SUBSET (BatchTxtNames \cup {BatchOtherName, BatchDirName})} :
        /\ \A n \in DOMAIN e : e[n].dir <=> n = BatchDirName
        /\ BatchOtherName \in DOMAIN e => e[BatchOtherName] = TextFile(<<"<", "a", ">">>)}
BatchFolders == {NoFolder, NotAFolder} \cup {Folder(e) : e \in BatchEntries}
BatchTemplates == {NoTemplate, Template(<<"{", "text", "}">>)}
BatchRuns ==
    {TimedOut, Failed(MissingBinaryCause), Completed(<<"blah">>),
     Completed(Braced(Member("bias", Lit("left")))),
     Completed(Braced(Member("raw_output", Lit("blah"))))}
BatchLogWrites == {"ok", "fail_open"}
BatchPages == {[raised |-> TRUE, text |-> <<>>], [raised |-> FALSE, text |-> <<"a">>]}

\* analyze_text_folder, lines 49-58: the folder is validated and its *.txt
\* entries are listed in sorted order.
BatchOpen ==
    /\ batch_pc = "start"
    /\ IF folder.kind # "dir" \/ glob_txt(folder.entries) = {}
       THEN /\ batch_pc' = "raised"
            /\ batch_outcome' = Outcome("ValueError", 0)
            /\ UNCHANGED text_files
       ELSE /\ batch_pc' = "loop"
            /\ text_files' = sorted(glob_txt(folder.entries))
            /\ UNCHANGED batch_outcome
    /\ UNCHANGED <<folder, results, current, processed, model_calls, written, extractions>>
    /\ UNCHANGED <<prepVars, parseVars, scoreVars, normVars, callVars, seqVars>>

\* analyze_text_folder, lines 60-72, and analyze_with_model up to the start of
\* the model process: the next file is read, its prompt is prepared, and
\* `ollama run` is started on it.
BatchStartFile ==
    /\ batch_pc = "loop"
    /\ LET file == Head(text_files)
           entry == folder.entries[file]
       IN  IF entry.dir
           THEN /\ batch_pc' = "raised"
                /\ batch_outcome' = Outcome("IsADirectoryError", processed)
                /\ UNCHANGED <<current, model_calls, extractions>>
           ELSE \E page1 \in BatchPages, page2 \in BatchPages :
                \E p \in {batch_prompt(entry.text, max_words, prompt_template, page1, page2)} :
                    /\ extractions' = extractions \o [i \in 1..Len(p.made) |-> <<file, p.made[i]>>]
                    /\ IF p.raised
                       THEN /\ batch_pc' = "raised"
                            /\ batch_outcome' = Outcome("extraction error", processed)
                            /\ UNCHANGED <<current, model_calls>>
                       ELSE /\ batch_pc' = "running"
                            /\ current' = [file |-> file, text |-> entry.text, prompt |-> p.prompt]
                            /\ model_calls' = Append(model_calls, <<file, p.prompt>>)
                            /\ UNCHANGED batch_outcome
    /\ UNCHANGED <<folder, results, text_files, processed, written>>
    /\ UNCHANGED <<prepVars, parseVars, scoreVars, normVars, callVars, seqVars>>

\* The rest of analyze_with_model and analyze_text_folder, lines 73-89: the
\* model process ends, the result is normalised and written to
\* results/<stem>.json, and after the last file the summary is returned.
BatchFinishFile ==
    /\ batch_pc = "running"
    /\ \E run \in BatchRuns, how \in BatchLogWrites :
       \E r \in {analyze_with_model(current.text, max_words, current.prompt,
                                    [raised |-> FALSE, text |-> <<>>],
                                    run, how, log_file)} :
           /\ model_run' = run
           /\ log_write' = how
           /\ log_file' = r.log
           /\ results' = _write_result_json(results, ResultName(current.file),
                              output_payload(current.text, normalize_bias_response(r.result)))
    /\ written' = Append(written, ResultName(current.file))
    /\ processed' = processed + 1
    /\ text_files' = Tail(text_files)
    /\ current' = NoCurrent
    /\ IF Tail(text_files) = <<>>
       THEN /\ batch_pc' = "returned"
            /\ batch_outcome' = Outcome("returned", processed + 1)
       ELSE /\ batch_pc' = "loop"
            /\ UNCHANGED batch_outcome
    /\ UNCHANGED <<folder, model_calls, extractions>>
    /\ UNCHANGED <<prepVars, parseVars, scoreVars, normVars, seqVars>>
    /\ UNCHANGED <<prepared_prompt, returned>>

BatchInit ==
    /\ raw_input = <<>> /\ max_words = 2
    /\ prompt_template \in BatchTemplates
    /\ prepared = NotRun /\ truncated = NotRun
    /\ IdleParse /\ IdleScore /\ IdleNorm /\ IdleCall /\ IdleSeq
    /\ folder \in BatchFolders
    /\ results \in IF folder.kind = "dir"
                    THEN {NoResults, [exists |-> TRUE, files |-> <<>>]}
                    ELSE {NoResults}
    /\ batch_pc = "start"
    /\ text_files = <<>> /\ current = NoCurrent /\ processed = 0
    /\ batch_outcome = NoOutcome
    /\ model_calls = <<>> /\ written = <<>> /\ extractions = <<>>

BatchNext == BatchOpen \/ BatchStartFile \/ BatchFinishFile

SpecBatch == BatchInit /\ [][BatchNext]_vars

----------------------------------------------------------------------------
(* What the claims speak of, stated without the code's own helpers. *)

\* The positions where a whitespace-separated token of s starts, and its tokens.
TokenStarts(s) ==
    {i \in 1..Len(s) : s[i] \notin Whitespace /\ (i = 1 \/ s[i - 1] \in Whitespace)}
TokenCount(s) == Cardinality(TokenStarts(s))
TokenEnd(s, i) ==
    CHOOSE e \in i..Len(s) :
        /\ \A j \in i..e : s[j] \notin Whitespace
        /\ (e = Len(s) \/ s[e + 1] \in Whitespace)
NthToken(s, k) ==
    LET i == CHOOSE st \in TokenStarts(s) :
                 Cardinality({x \in TokenStarts(s) : x <= st}) = k
    IN  SubSeq(s, i, TokenEnd(s, i))

\* out consists of exactly the first n tokens of s, in their order.
IsFirstTokens(out, s, n) ==
    /\ TokenCount(out) = n
    /\ \A k \in 1..n : NthToken(out, k) = NthToken(s, k)

\* s has no whitespace at either end and single spaces between its tokens.
SingleSpaced(s) ==
    /\ \A i \in 1..Len(s) : s[i] \in Whitespace => s[i] = " "
    /\ s # <<>> => s[1] # " " /\ s[Len(s)] # " "
    /\ \A i \in 1..(Len(s) - 1) : ~(s[i] = " " /\ s[i + 1] = " ")

\* The scores, and the unit range.
MinusOne == JNum(TRUE, 1, <<>>)
PlusOne == JNum(FALSE, 1, <<>>)
Zero == JNum(FALSE, 0, <<>>)
InUnitRange(x) == x.t = "num" /\ (x.ip = 0 \/ (x.ip = 1 /\ x.fr = <<>>))
Magnitude1Plus(x) == x.ip > 1 \/ (x.ip = 1 /\ x.fr # <<>>)

\* y is x clamped to [-1, 1].
IsClampOf(y, x) ==
    /\ InUnitRange(y)
    /\ (~x.neg /\ Magnitude1Plus(x)) => y = PlusOne
    /\ (x.neg /\ Magnitude1Plus(x)) => y = MinusOne
    /\ ~Magnitude1Plus(x) => y = x

\* s without the whitespace at its ends, in lower case.
TrimmedLower(s) ==
    LET keep == {i \in 1..Len(s) :
                     /\ \E j \in 1..i : s[j] \notin Whitespace
                     /\ \E j \in i..Len(s) : s[j] \notin Whitespace}
    IN  IF keep = {} THEN <<>>
        ELSE LET lo == CHOOSE i \in keep : \A j \in keep : i <= j
             IN  [i \in 1..Cardinality(keep) |-> LowerSym(s[lo + i - 1])]

\* s is a decimal numeral: an optional sign, digits, at most one point.
IsNumeral(s) ==
    LET body == IF s # <<>> /\ s[1] \in {"-", "+"} THEN Tail(s) ELSE s IN
    /\ \A i \in 1..Len(body) : body[i] \in Digits \cup {"."}
    /\ \E i \in 1..Len(body) : body[i] \in Digits
    /\ Cardinality({i \in 1..Len(body) : body[i] = "."}) <= 1

\* v is a bias value the score parser can score.
Scorable(v) ==
    \/ v.t \in {"num", "bool"}
    \/ /\ v.t = "str"
       /\ \/ TrimmedLower(v.s) \in LeftLabels \cup RightLabels \cup NeutralLabels
          \/ IsNumeral(TrimmedLower(v.s))

\* The symbols of prose around a reply: words and blanks, no brace.
ProseChars == {"blah", " "}

----------------------------------------------------------------------------
(* Claims *)

\* C8: for every template value and every truncated text, prompt construction
\* produces a prompt that contains the truncated text: the text-insertion step is
\* never silently skipped.  Stated for the prompts that are produced (where the
\* template's format() raises no prompt is produced at all).
C8_PromptAlwaysContainsText ==
    (prepared.done /\ ~prepared.r.raised) =>
        Contains(prepared.r.prompt, prepared.r.truncated_text)

\* C9: a text with more than N tokens (N > 0) is truncated to exactly its first
\* N tokens in their order, with truncated_word_count = N <= max_words and
\* words_cut = original_word_count - N.
C9_TruncatesToFirstN ==
    /\ (truncated.done /\ max_words > 0 /\ TokenCount(raw_input) > max_words) =>
           IsFirstTokens(truncated.r, raw_input, max_words)
    /\ (prepared.done /\ max_words > 0
            /\ TokenCount(prepared.r.cleaned_text) > max_words) =>
           /\ IsFirstTokens(prepared.r.truncated_text, prepared.r.cleaned_text, max_words)
           /\ prepared.r.original_word_count = TokenCount(prepared.r.cleaned_text)
           /\ prepared.r.truncated_word_count = max_words
           /\ prepared.r.words_cut = prepared.r.original_word_count - max_words

C9_Witness ==
    /\ truncated.done /\ prepared.done
    /\ max_words = 2
    /\ TokenCount(raw_input) = 3
    /\ prepared.r.words_cut = 1
    /\ truncated.r = <<"b", " ", "a">>

\* C10 as claimed: a text with at most N tokens is returned unchanged, with
\* words_cut = 0.  Stated for the call prepare_bias_input makes, whose text is
\* the extracted text (already stripped at both ends).
C10_ReturnsInputUnchanged ==
    (prepared.done /\ TokenCount(prepared.r.cleaned_text) <= max_words) =>
        /\ prepared.r.truncated_text = prepared.r.cleaned_text
        /\ prepared.r.words_cut = 0

\* C10 as amended: a text with at most N tokens comes back as all of its tokens,
\* in order, joined by single spaces, which is the input itself exactly when the
\* input is already single-spaced; and words_cut = 0.
C10_ReturnsAllTokensSingleSpaced ==
    /\ (truncated.done /\ TokenCount(raw_input) <= max_words) =>
           /\ IsFirstTokens(truncated.r, raw_input, TokenCount(raw_input))
           /\ SingleSpaced(truncated.r)
           /\ (truncated.r = raw_input) <=> SingleSpaced(raw_input)
    /\ (prepared.done /\ TokenCount(prepared.r.cleaned_text) <= max_words) =>
           /\ IsFirstTokens(prepared.r.truncated_text, prepared.r.cleaned_text,
                            TokenCount(prepared.r.cleaned_text))
           /\ SingleSpaced(prepared.r.truncated_text)
           /\ (prepared.r.truncated_text = prepared.r.cleaned_text)
                  <=> SingleSpaced(prepared.r.cleaned_text)
           /\ prepared.r.words_cut = 0

C10_Witness ==
    /\ truncated.done /\ prepared.done
    /\ max_words = 2
    /\ raw_input = <<"a", "\n", " ", "b">>
    /\ truncated.r = <<"a", " ", "b">>
    /\ prepared.r.words_cut = 0

\* C3 as claimed: the response parser returns a JSON object or null for every raw
\* output; a whole output that is valid JSON but no object is never returned.
C3_PayloadIsObjectOrNull ==
    payload.done => payload.r.t \in {"obj", "null"}

\* C4: when the whole raw output is not valid JSON, the parser uses exactly the
\* span from the first "{" to the last "}": null when there is no "{", no "}" or
\* the last "}" is not after the first "{", else the object parsed from the span
\* or null when the span is not valid JSON.  An object inside brace-free prose is
\* recovered, and two brace-delimited objects are parsed as one span.
C4_FirstToLastBraceSpan ==
    /\ (payload.done /\ ~json_loads(output).ok) =>
           LET opens == {i \in 1..Len(output) : output[i] = "{"}
               closes == {i \in 1..Len(output) : output[i] = "}"}
               first == CHOOSE o \in opens : \A x \in opens : o <= x
               last == CHOOSE c \in closes : \A x \in closes : x <= c
               span == json_loads(SubSeq(output, first, last))
           IN  IF opens = {} \/ closes = {} \/ last <= first
               THEN payload.r = JNull
               ELSE /\ payload.r.t \in {"obj", "null"}
                    /\ span.ok => payload.r = span.v
                    /\ ~span.ok => payload.r = JNull
    /\ payload.done =>
           LET opens == {i \in 1..Len(output) : output[i] = "{"}
               closes == {i \in 1..Len(output) : output[i] = "}"}
               first == CHOOSE o \in opens : \A x \in opens : o <= x
               last == CHOOSE c \in closes : \A x \in closes : x <= c
               span == json_loads(SubSeq(output, first, last))
           IN  ( /\ opens # {} /\ closes # {} /\ first < last
                 /\ \A i \in 1..Len(output) :
                        (i < first \/ i > last) => output[i] \in ProseChars
                 /\ span.ok )
                   => payload.r = span.v

C4_Witness ==
    /\ payload.done
    /\ output = <<"blah", " ">> \o Braced(Member("bias", Braced(Member("left", <<"5">>))))
                    \o <<" ", "blah">>
    /\ payload.r = JObj(K("bias") :> JObj(K("left") :> JNum(FALSE, 5, <<>>)))

C7_ReasoningPreferred ==
    ( /\ normalized.done
      /\ K("reasoning") \in DOMAIN result /\ K("rationale") \in DOMAIN result
      /\ result[K("reasoning")].t = "str" ) =>
        /\ DictGet(normalized.r, K("reasoning")) = result[K("reasoning")]
        /\ DictGet(normalized.r, K("rationale")) = result[K("rationale")]

\* C1 as claimed: every outcome of the model call is returned as data, never
\* raised: a timeout gives {bias: "timeout"}, any other failure of the
\* invocation gives bias "error: <cause>", and a completed run from whose output
\* no JSON is recovered gives exactly {bias: "unknown", raw_output: <trimmed
\* stdout>}.  Stated for the calls that are handed a prompt.
C1_OutcomesReturnedAsData ==
    (returned.done /\ prepared_prompt # <<>>) =>
        /\ ~returned.r.raised
        /\ model_run.kind = "timeout" =>
               returned.r.result = (K("bias") :> JStr(<<"timeout">>))
        /\ model_run.kind = "failed" =>
               returned.r.result = (K("bias") :> JStr(<<"error: ", model_run.cause>>))
        /\ (model_run.kind = "completed"
                /\ _extract_json_payload(Strip(model_run.stdout)) = JNull) =>
               returned.r.result = (K("bias") :> JStr(<<"unknown">>))
                                       @@ (K("raw_output") :> JStr(Strip(model_run.stdout)))

\* C2 as claimed: a failure to write the run log never changes the result: when
\* the model call completed, the result returned is the one returned when the
\* log write succeeds.
C2_LogFailureKeepsResult ==
    (returned.done /\ ~returned.r.raised /\ model_run.kind = "completed") =>
        returned.r.result =
            analyze_with_model(raw_input, max_words, prepared_prompt,
                               [raised |-> FALSE, text |-> <<>>],
                               model_run, "ok", NoLog).result

\* C11 as claimed: for every text and every max_words <= 0, zero and negative
\* alike, truncation yields the empty output (zero tokens).
C11_NonPositiveLimitYieldsEmpty ==
    /\ (truncated.done /\ max_words <= 0) => truncated.r = <<>>
    /\ (prepared.done /\ max_words <= 0) =>
           /\ prepared.r.truncated_text = <<>>
           /\ prepared.r.truncated_word_count = 0

\* C18 as claimed: whenever the model call completes and a JSON reply is
\* recovered, the raw_output field of the returned result equals the model's
\* trimmed standard output, also when the reply carries a "raw_output" key of its
\* own.  Stated for replies that are JSON objects and runs whose log write
\* succeeds.
C18_RawOutputIsTrimmedStdout ==
    (/\ returned.done /\ ~returned.r.raised
     /\ model_run.kind = "completed" /\ log_write = "ok"
     /\ _extract_json_payload(Strip(model_run.stdout)).t = "obj") =>
        DictGet(returned.r.result, K("raw_output")) = JStr(Strip(model_run.stdout))

\* The outcome class of a run of the model process: it timed out, it failed, it
\* completed without recoverable JSON, or it completed with a recovered reply.
OutcomeClass(run) ==
    IF run.kind # "completed" THEN run.kind
    ELSE IF _extract_json_payload(Strip(run.stdout)) = JNull THEN "no_json"
    ELSE "json"

\* C15 as claimed: the result alone tells the outcome class: no run of another
\* class among timed out, completed without JSON and completed with a recovered
\* reply returns a result equal to the one returned.  Stated for runs whose log
\* write succeeds.
C15_ResultTellsOutcomeClass ==
    (/\ returned.done /\ ~returned.r.raised /\ log_write = "ok"
     /\ OutcomeClass(model_run) \in {"timeout", "no_json", "json"}) =>
        \A other \in CallRuns :
            (/\ OutcomeClass(other) \in {"timeout", "no_json", "json"}
             /\ OutcomeClass(other) # OutcomeClass(model_run)) =>
                analyze_with_model(raw_input, max_words, prepared_prompt,
                                   [raised |-> FALSE, text |-> <<"a">>],
                                   other, "ok", NoLog).result # returned.r.result

\* C16 as claimed: after any sequence of model calls for one model name the run
\* log holds exactly the record of the most recent call: its prompt, its raw
\* output and its parsed JSON (or the no-JSON marker), whether that call
\* completed, timed out or failed.  Stated for calls whose log write, if tried,
\* succeeds.
C16_LogHoldsLastInvocation ==
    (invocations > 0 /\ log_write = "ok") =>
        /\ log_file.exists
        /\ log_file.complete
        /\ log_file.prompt = prepared_prompt
        /\ log_file.raw_output = Strip(model_run.stdout)
        /\ log_file.parsed = _extract_json_payload(Strip(model_run.stdout))

\* The *.txt entries of the folder that are files, and whether all of them are.
EligibleFiles ==
    {n \in glob_txt(folder.entries) : ~folder.entries[n].dir}
OnlyFilesNamedTxt == EligibleFiles = glob_txt(folder.entries)
BatchEnded == batch_pc \in {"returned", "raised"}

\* C12 as claimed: for a folder holding k >= 1 eligible .txt files the batch ends
\* with exactly k result files, one named after each input stem, and a summary
\* with processed_files = k; a timeout, an invocation error or an unparseable
\* output of one file's model call is recorded in that file's record.  Stated
\* for folders in which every entry named *.txt is a file.
C12_OneResultPerFile ==
    /\ (BatchEnded /\ EligibleFiles # {} /\ OnlyFilesNamedTxt) =>
           /\ batch_outcome = Outcome("returned", Cardinality(EligibleFiles))
           /\ results.exists
           /\ DOMAIN results.files = {ResultName(n) : n \in EligibleFiles}
    /\ (written # <<>> /\ batch_pc # "running") =>
           LET record == results.files[written[Len(written)]] IN
           /\ model_run.kind = "timeout" => record[K("bias")] = JStr(<<"timeout">>)
           /\ model_run.kind = "failed" =>
                  record[K("bias")] = JStr(<<"error: ", model_run.cause>>)
           /\ (model_run.kind = "completed" /\ log_write = "ok"
                   /\ _extract_json_payload(Strip(model_run.stdout)) = JNull) =>
                  record[K("bias")] = JStr(<<"unknown">>)

\* C13 as claimed: in batch processing every file's content is plain text: no
\* URL is fetched and no HTML is extracted whatever the file contains, and the
\* text placed in the prompt is the file's own text, trimmed and truncated.
C13_BatchTextIsPlain ==
    /\ extractions = <<>>
    /\ \A i \in 1..Len(model_calls) :
           LET own == truncate_words(Strip(folder.entries[model_calls[i][1]].text), max_words)
           IN  model_calls[i][2] \in
                   {own, DefaultInstructions \o <<"\n", "\n">> \o TextBlock(own)}

\* C14 as claimed: when the folder does not exist, is not a directory or holds no
\* .txt files, the batch raises ValueError, starts no model process and creates
\* neither the results directory nor a result file.
C14_FailsFastWithValueError ==
    ((folder.kind # "dir" \/ EligibleFiles = {}) /\ BatchEnded) =>
        /\ batch_outcome = Outcome("ValueError", 0)
        /\ model_calls = <<>>
        /\ written = <<>>
        /\ results.files = <<>>

============================================================================
